---- MODULE Spec2Model ----
(***************************************************************************)
(* The ReplayFeed component (recording cache, in-flight set, prefetch      *)
(* scheduler) of the session replay viewer.                                *)
(*                                                                         *)
(* React state is modelled twice: the component state itself (the value    *)
(* every queued update has been applied to) and `view`, the state as the  *)
(* last committed render saw it.  Every handler, effect and callback of    *)
(* the component is a closure of a render, so what the code READS comes    *)
(* from `view` (or from the mount closure), while what it WRITES goes to   *)
(* the component state: a value written with set...(v) and a functional    *)
(* update set...(prev => ...) applied to the latest state.                 *)
(*                                                                         *)
(* Scheduling: a JavaScript task runs up to its next await as one step.    *)
(* Updates made by a click handler are rendered, and the effects of that   *)
(* render run, before anything else happens (syncFlush).  Updates made by  *)
(* a promise continuation, a timer or a player event are rendered in a     *)
(* later task, and the effect of that render runs in a task after it.      *)
(***************************************************************************)
EXTENDS Integers, Sequences, FiniteSets, TLC

\* ---- bounds of the model ----
MaxRecs == 3            \* longest recording list of specification Spec
LongRecs == 6           \* length of the recording list of specification SpecLong
LiveRecs == 2           \* longest recording list of specification SpecLive
MaxFailures == 2        \* most snapshot requests that fail in one run
MaxKeys == 41           \* most blob keys in the listing of a recording
MaxListed == 3          \* most recordings the upstream API lists
MaxSessions == 2        \* most submissions of credentials in one run

\* ---- program constants ----
PrefetchCount_Short == 5 - 1
PrefetchCount == 5      \* width of the prefetch window
HttpStatus == 500       \* status of a non-OK snapshot response

Null == "null"

RecordingId(i) == 10 + i
MaxLen == IF MaxRecs > LongRecs THEN MaxRecs ELSE LongRecs
AllIds == { RecordingId(i) : i \in 0..(MaxLen - 1) }
Min(a, b) == IF a < b THEN a ELSE b

\* element i (0-based, as in the source) of a list
At(list, i) == list[i + 1]

VARIABLES
    recordings,      \* useState<SessionRecording[]>: the ids, in list order
    currentIndex,    \* useState(0)
    snapshots,       \* useState<Record<string, RRWebEvent[]>>: the cache
    isLoading,       \* useState(true)
    error,           \* useState<string | null>: list error
    snapshotError,   \* useState<string | null>
    fetchingIds,     \* useState<Set<string>>: the in-flight set
    view,            \* the state captured by the last committed render
    effectDeps,      \* [currentIndex, recordings] the index effect last ran with
    syncFlush,       \* a click handler's updates are being flushed
    listRequest,     \* "inflight" | "done": the POST /api/replays of mount
    pipelines,       \* [id, isPrimary] -> outstanding POSTs /api/replays/{id}/snapshots
    failures,        \* number of snapshot requests that have failed
    last,            \* what the last step did (history, read by the properties)
    route,           \* recording id -> the invocation of the snapshot route for it
    listRoute,       \* the invocation of the list route, POST /api/replays
    session          \* Home: the credentials, and what earlier feeds left behind

vars == << recordings, currentIndex, snapshots, isLoading, error,
           snapshotError, fetchingIds, view, effectDeps, syncFlush,
           listRequest, pipelines, failures, last, route,
           listRoute, session >>

EmptyCache == [ id \in {} |-> << >> ]

\* the state a render captures
Rendered(recs, idx, snaps, loading, err, snapErr, fids) ==
    [ recordings |-> recs, currentIndex |-> idx, snapshots |-> snaps,
      isLoading |-> loading, error |-> err, snapshotError |-> snapErr,
      fetchingIds |-> fids ]

Live == Rendered(recordings, currentIndex, snapshots, isLoading, error,
                 snapshotError, fetchingIds)

\* the closure of the first render, which the mount effect keeps
MountClosure == Rendered(<< >>, 0, EmptyCache, TRUE, Null, Null, {})

Dirty == view # Live

\* the dependency array of the index effect, as a render sees it
Deps(r) == [ currentIndex |-> r.currentIndex, recordings |-> r.recordings ]

\* the last render changed [currentIndex, recordings] and its effect has not run
EffectPending == effectDeps # Deps(view)

\* a click is being flushed: nothing else runs until render and effects are done
Flushing == syncFlush /\ (Dirty \/ EffectPending)

NoPipelines == [ k \in AllIds \X BOOLEAN |-> 0 ]
InFlight(p, id) == p[<<id, TRUE>>] + p[<<id, FALSE>>]


\* ---- responses of POST /api/replays/{id}/snapshots ----

\* the event stream the route returns for a recording
StreamOf(id) == << [ type |-> 2, timestamp |-> 1, rec |-> id ],
                   [ type |-> 3, timestamp |-> 2, rec |-> id ] >>

Absent == "absent"

\* a response body: the four fields the client looks at, Absent when missing
Body(byWindow, sources, array, snaps) ==
    [ snapshot_data_by_window_id |-> byWindow, sources |-> sources,
      array |-> array, snapshots |-> snaps ]

NoOp(op) == [ op |-> op, calls |-> << >>, started |-> << >>, id |-> 0,
              primary |-> FALSE, kind |-> "none",
              data |-> Body(Absent, Absent, Absent, Absent) ]

AllResponses(id) ==
    { [ kind |-> "ok",      threw |-> FALSE, ok |-> TRUE,  status |-> 200, error |-> Absent,
        data |-> Body(Absent, StreamOf(id), Absent, Absent) ],
      [ kind |-> "empty",   threw |-> FALSE, ok |-> TRUE,  status |-> 200, error |-> Absent,
        data |-> Body(Absent, << >>, Absent, Absent) ],
      [ kind |-> "unknown", threw |-> FALSE, ok |-> TRUE,  status |-> 200, error |-> Absent,
        data |-> Body(Absent, Absent, Absent, Absent) ],
      [ kind |-> "http",    threw |-> FALSE, ok |-> FALSE, status |-> HttpStatus,
        error |-> "Internal server error",
        data |-> Body(Absent, Absent, Absent, Absent) ],
      [ kind |-> "threw",   threw |-> TRUE,  ok |-> FALSE, status |-> 0, error |-> Absent,
        data |-> Body(Absent, Absent, Absent, Absent) ] }

\* an event of a recording
Snapshot(id, timestamp) == [ type |-> 3, timestamp |-> timestamp, rec |-> id ]

\* the bodies a success can carry: an object with any of the fields
\* snapshot_data_by_window_id (two windows), sources (empty or not) and
\* snapshots, or a bare array
ShapeBodies(id) ==
    LET byWindow == << << Snapshot(id, 11) >>, << Snapshot(id, 12) >> >>
        sources == << Snapshot(id, 21) >>
        array == << Snapshot(id, 31) >>
        snaps == << Snapshot(id, 41) >>
    IN << Body(Absent, Absent, Absent, Absent),
          Body(Absent, Absent, Absent, snaps),
          Body(Absent, << >>, Absent, Absent),
          Body(Absent, << >>, Absent, snaps),
          Body(Absent, sources, Absent, Absent),
          Body(Absent, sources, Absent, snaps),
          Body(byWindow, Absent, Absent, Absent),
          Body(byWindow, Absent, Absent, snaps),
          Body(byWindow, << >>, Absent, Absent),
          Body(byWindow, << >>, Absent, snaps),
          Body(byWindow, sources, Absent, Absent),
          Body(byWindow, sources, Absent, snaps),
          Body(Absent, Absent, array, Absent) >>

ShapeResponse(data) ==
    [ kind |-> "shape", threw |-> FALSE, ok |-> TRUE, status |-> 200,
      error |-> Absent, data |-> data ]

\* how the request of a recording fails when it fails
FailureKinds == << "http", "empty", "unknown", "threw" >>
FailureKind(id) == FailureKinds[((id - RecordingId(0)) % Len(FailureKinds)) + 1]

\* the answers a request for a recording can get
Responses(id) ==
    { r \in AllResponses(id) : r.kind = "ok" \/ r.kind = FailureKind(id) }

RECURSIVE Flat(_)
Flat(ss) == IF ss = << >> THEN << >> ELSE Head(ss) \o Flat(Tail(ss))

\* a detection that looks at sources first
ExtractSnapshots_SourcesFirst(data) ==
    IF data.sources # Absent THEN data.sources
    ELSE IF data.snapshot_data_by_window_id # Absent
        THEN Flat(data.snapshot_data_by_window_id)
    ELSE IF data.array # Absent THEN data.array
    ELSE IF data.snapshots # Absent THEN data.snapshots
    ELSE Absent

\* shape detection: the events of a body, or Absent for an unknown format
ExtractSnapshots(data) ==
    IF data.snapshot_data_by_window_id # Absent
        THEN Flat(data.snapshot_data_by_window_id)
    ELSE IF data.sources # Absent THEN data.sources
    ELSE IF data.array # Absent THEN data.array
    ELSE IF data.snapshots # Absent THEN data.snapshots
    ELSE Absent

\* the try block without its check for an empty event list
FetchOutcome_NoEmptyCheck(resp) ==
    IF resp.threw THEN [ tag |-> "err", msg |-> "Failed to fetch" ]
    ELSE IF ~resp.ok
        THEN [ tag |-> "err",
               msg |-> "HTTP " \o ToString(resp.status) \o ": " \o
                       (IF resp.error # Absent THEN resp.error
                        ELSE "Failed to fetch snapshots") ]
    ELSE LET allSnapshots == ExtractSnapshots(resp.data) IN
         IF allSnapshots = Absent
            THEN [ tag |-> "err", msg |-> "Unknown snapshot data format" ]
         ELSE [ tag |-> "ok", events |-> allSnapshots ]

\* the try block after the await: "ok" and the events, or "err" and the message
FetchOutcome(resp) ==
    IF resp.threw THEN [ tag |-> "err", msg |-> "Failed to fetch" ]
    ELSE IF ~resp.ok
        THEN [ tag |-> "err",
               msg |-> "HTTP " \o ToString(resp.status) \o ": " \o
                       (IF resp.error # Absent THEN resp.error
                        ELSE "Failed to fetch snapshots") ]
    ELSE LET allSnapshots == ExtractSnapshots(resp.data) IN
         IF allSnapshots = Absent
            THEN [ tag |-> "err", msg |-> "Unknown snapshot data format" ]
         ELSE IF Len(allSnapshots) = 0
            THEN [ tag |-> "err", msg |-> "No snapshot data found in response" ]
         ELSE [ tag |-> "ok", events |-> allSnapshots ]

\* what fetch gives the client for a response of the route: response.ok,
\* response.status and the parsed body
ClientResponse(response) ==
    [ kind |-> "route", threw |-> FALSE,
      ok |-> response.status >= 200 /\ response.status <= 299,
      status |-> response.status,
      error |-> IF response.error = "" THEN Absent ELSE response.error,
      data |-> Body(Absent,
                    IF response.hasSources THEN response.sources ELSE Absent,
                    Absent, Absent) ]

\* ---- fetchSnapshotsForRecording, up to its await ----

\* f: the part of the state the call writes; c: the closure the call reads
fetchSnapshotsForRecording(f, c, recordingId, isPrimary) ==
    IF recordingId \in DOMAIN c.snapshots \/ recordingId \in c.fetchingIds
    THEN f
    ELSE [ fetchingIds   |-> f.fetchingIds \cup {recordingId},
           snapshotError |-> IF isPrimary THEN Null ELSE f.snapshotError,
           pipelines     |-> [ f.pipelines EXCEPT ![<<recordingId, isPrimary>>] = @ + 1 ],
           started       |-> Append(f.started, <<recordingId, isPrimary>>) ]

\* the calls the loop of prefetchRecordings makes, in order
PrefetchCalls(recordingsList, fromIndex) ==
    LET endIndex == Min(fromIndex + PrefetchCount, Len(recordingsList)) IN
    [ k \in 1..(IF endIndex > fromIndex THEN endIndex - fromIndex ELSE 0) |->
        << At(recordingsList, fromIndex + k - 1), k = 1 >> ]

RECURSIVE RunCalls(_, _, _)
RunCalls(f, c, calls) ==
    IF calls = << >> THEN f
    ELSE RunCalls(fetchSnapshotsForRecording(f, c, Head(calls)[1], Head(calls)[2]),
                  c, Tail(calls))

prefetchRecordings(f, c, recordingsList, fromIndex) ==
    RunCalls(f, c, PrefetchCalls(recordingsList, fromIndex))

FetchState == [ fetchingIds |-> fetchingIds, snapshotError |-> snapshotError,
                pipelines |-> pipelines, started |-> << >> ]


\* ---- fetchSnapshotsForRecording, after its await ----

\* a success path that discards the stream of a recording that has left the
\* prefetch window
StoreSnapshots_WindowOnly(prev, recordingId, out) ==
    IF /\ out.tag = "ok"
       /\ recordingId - RecordingId(0) >= currentIndex
       /\ recordingId - RecordingId(0) < currentIndex + PrefetchCount
    THEN [ id \in DOMAIN prev \cup {recordingId} |->
             IF id = recordingId THEN out.events ELSE prev[id] ]
    ELSE prev

\* a success path that writes the cache without reading its latest value
StoreSnapshots_Overwrite(prev, recordingId, out) ==
    IF out.tag = "ok"
    THEN [ id \in {recordingId} |-> out.events ]
    ELSE prev

\* setSnapshots(prev => ({...prev, [recordingId]: allSnapshots})) on success
StoreSnapshots(prev, recordingId, out) ==
    IF out.tag = "ok"
    THEN [ id \in DOMAIN prev \cup {recordingId} |->
             IF id = recordingId THEN out.events ELSE prev[id] ]
    ELSE prev

\* a catch block that surfaces every failure
CatchError_Always(prev, isPrimary, out) ==
    IF out.tag = "err" THEN out.msg ELSE prev

\* catch: if (isPrimary) setSnapshotError(err.message)
CatchError(prev, isPrimary, out) ==
    IF out.tag = "err" /\ isPrimary THEN out.msg ELSE prev

\* a fetch that never releases its recording
FinallyRelease_Keep(prev, recordingId) == prev

\* finally: setFetchingIds(prev => prev without recordingId)
FinallyRelease(prev, recordingId) == prev \ {recordingId}

\* ==== the snapshot route: POST /api/replays/{id}/snapshots ====

\* ---- values of an event's data field ----

Undefined == [ type |-> "undefined", bytes |-> << >>, value |-> "" ]
Str(bytes) == [ type |-> "string", bytes |-> bytes, value |-> "" ]
Obj(value) == [ type |-> "object", bytes |-> << >>, value |-> value ]

\* JavaScript truthiness of a data field: if (event.data)
Truthy(data) ==
    \/ data.type = "object"
    \/ data.type = "string" /\ Len(data.bytes) > 0

RECURSIVE SumBytes(_)
SumBytes(bytes) == IF bytes = << >> THEN 0 ELSE Head(bytes) + SumBytes(Tail(bytes))

\* the trailer of a compressed stream
Checksum(text) == SumBytes(text) % 256

\* the compressed form of a text, as the upstream API writes it: the two
\* magic bytes, the text, the trailer
Deflate(text) == << 31, 139 >> \o text \o << Checksum(text) >>

\* pako.inflate(bytes, {to: 'string'}): the text, or a thrown error
Inflate(bytes) ==
    IF /\ Len(bytes) >= 3
       /\ bytes[Len(bytes)] = Checksum(SubSeq(bytes, 3, Len(bytes) - 1))
    THEN [ threw |-> FALSE, text |-> SubSeq(bytes, 3, Len(bytes) - 1) ]
    ELSE [ threw |-> TRUE, text |-> << >> ]

\* JSON.parse of a text: "{}" and "[]" are the JSON texts of the model
JsonParse(text) ==
    IF text = << 123, 125 >> THEN [ threw |-> FALSE, value |-> Obj("{}") ]
    ELSE IF text = << 91, 93 >> THEN [ threw |-> FALSE, value |-> Obj("[]") ]
    ELSE [ threw |-> TRUE, value |-> Undefined ]

\* data.charCodeAt(0) === 0x1f && data.charCodeAt(1) === 0x8b
HasGzipMagic(data) ==
    /\ data.type = "string"
    /\ Len(data.bytes) >= 2
    /\ data.bytes[1] = 31
    /\ data.bytes[2] = 139

\* a helper that never decompresses
maybeDecompress_Never(data) == data

maybeDecompress(data) ==
    IF HasGzipMagic(data)
    THEN LET decompressed == Inflate(data.bytes) IN
         IF decompressed.threw THEN data
         ELSE LET parsed == JsonParse(decompressed.text) IN
              IF parsed.threw THEN data ELSE parsed.value
    ELSE data

\* ---- lines of a batch response ----

NoTimestamp == [ has |-> FALSE, v |-> 0 ]
Timestamp(v) == [ has |-> TRUE, v |-> v ]

\* an element of a parsed array: an object (an event), null, or a string
Element(kind, timestamp, data, origin) ==
    [ kind |-> kind, timestamp |-> timestamp, data |-> data, origin |-> origin ]
WindowId == Element("string", NoTimestamp, Undefined, << >>)
NullElement == Element("null", NoTimestamp, Undefined, << >>)
Event(timestamp, data, origin) == Element("object", timestamp, data, origin)

\* a line of text: blank, or what JSON.parse makes of it
BlankLine == [ blank |-> TRUE, parses |-> FALSE, isArray |-> FALSE, elems |-> << >> ]
BadJson == [ blank |-> FALSE, parses |-> FALSE, isArray |-> FALSE, elems |-> << >> ]
JsonObject == [ blank |-> FALSE, parses |-> TRUE, isArray |-> FALSE, elems |-> << >> ]
JsonArray(elems) == [ blank |-> FALSE, parses |-> TRUE, isArray |-> TRUE, elems |-> elems ]

\* rawText.split('\n').filter(line => line.trim())
SplitLines(rawText) == SelectSeq(rawText, LAMBDA line : ~line.blank)

\* the body of the loop over the lines: the events one line pushes
DecodeLine(line) ==
    IF ~line.parses THEN << >>
    ELSE IF line.isArray /\ Len(line.elems) = 2
        THEN LET event == line.elems[2] IN
             IF event.kind = "null" THEN << >>
             ELSE IF Truthy(event.data)
                THEN << [ event EXCEPT !.data = maybeDecompress(event.data) ] >>
             ELSE << event >>
    ELSE << >>

\* a loop that gives up on a batch at its first line that does not parse
RECURSIVE DecodeLines_AbortOnError(_)
DecodeLines_AbortOnError(lines) ==
    IF lines = << >> THEN << >>
    ELSE IF ~Head(lines).parses THEN << >>
    ELSE DecodeLine(Head(lines)) \o DecodeLines_AbortOnError(Tail(lines))

\* for (const line of lines) { try { ... } catch { } }
RECURSIVE DecodeLines(_)
DecodeLines(lines) ==
    IF lines = << >> THEN << >>
    ELSE DecodeLine(Head(lines)) \o DecodeLines(Tail(lines))

\* ---- blob keys and batches ----

BATCH_SIZE == 20

\* a resolution that takes the key of every entry that has one
RECURSIVE ResolveKeys_AnySource(_)
ResolveKeys_AnySource(sources) ==
    IF sources = << >> THEN << >>
    ELSE (IF Head(sources).blob_key.has
          THEN << Head(sources).blob_key.v >> ELSE << >>)
         \o ResolveKeys_AnySource(Tail(sources))

\* .filter(source => source.source === 'blob_v2' && source.blob_key !== undefined)
\* .map(source => source.blob_key)
RECURSIVE ResolveKeys(_)
ResolveKeys(sources) ==
    IF sources = << >> THEN << >>
    ELSE (IF Head(sources).source = "blob_v2" /\ Head(sources).blob_key.has
          THEN << Head(sources).blob_key.v >> ELSE << >>)
         \o ResolveKeys(Tail(sources))

\* insertion of x into an ascending list after every element that does not
\* compare greater: the order a stable sort gives
RECURSIVE InsertKey(_, _)
InsertKey(sorted, x) ==
    IF sorted = << >> THEN << x >>
    ELSE IF Head(sorted) - x > 0 THEN << x >> \o sorted
    ELSE << Head(sorted) >> \o InsertKey(Tail(sorted), x)

\* a key list left in listing order
SortKeys_Unsorted(keys) == keys

\* .sort((a, b) => a - b)
RECURSIVE SortKeys(_)
SortKeys(keys) ==
    IF keys = << >> THEN << >>
    ELSE InsertKey(SortKeys(SubSeq(keys, 1, Len(keys) - 1)), keys[Len(keys)])

\* batches of one key less than the slice of the source
\* every key in one batch
Batches_Single(blobKeys) ==
    IF blobKeys = << >> THEN << >> ELSE << blobKeys >>

RECURSIVE Batches_ShortSlice(_)
Batches_ShortSlice(blobKeys) ==
    IF blobKeys = << >> THEN << >>
    ELSE << SubSeq(blobKeys, 1, Min(BATCH_SIZE - 1, Len(blobKeys))) >>
         \o Batches_ShortSlice(SubSeq(blobKeys, Min(BATCH_SIZE, Len(blobKeys)) + 1,
                                      Len(blobKeys)))

\* for (i = 0; i < blobKeys.length; i += BATCH_SIZE)
\*     batches.push(blobKeys.slice(i, i + BATCH_SIZE))
RECURSIVE Batches(_)
Batches(blobKeys) ==
    IF blobKeys = << >> THEN << >>
    ELSE << SubSeq(blobKeys, 1, Min(BATCH_SIZE, Len(blobKeys))) >>
         \o Batches(SubSeq(blobKeys, Min(BATCH_SIZE, Len(blobKeys)) + 1, Len(blobKeys)))

\* ---- the final sort ----

\* a comparator key under which an event without timestamp sorts last
EventKey_MissingLast(event) ==
    IF event.timestamp.has /\ event.timestamp.v # 0 THEN event.timestamp.v ELSE 1000

\* aEvent.timestamp || 0
EventKey(event) ==
    IF event.timestamp.has /\ event.timestamp.v # 0 THEN event.timestamp.v ELSE 0

\* an insertion that keeps one event per ordering key
RECURSIVE InsertEvent_Unique(_, _)
InsertEvent_Unique(sorted, x) ==
    IF sorted = << >> THEN << x >>
    ELSE IF EventKey(Head(sorted)) = EventKey(x) THEN sorted
    ELSE IF EventKey(Head(sorted)) - EventKey(x) > 0 THEN << x >> \o sorted
    ELSE << Head(sorted) >> \o InsertEvent_Unique(Tail(sorted), x)

RECURSIVE InsertEvent(_, _)
InsertEvent(sorted, x) ==
    IF sorted = << >> THEN << x >>
    ELSE IF EventKey(Head(sorted)) - EventKey(x) > 0 THEN << x >> \o sorted
    ELSE << Head(sorted) >> \o InsertEvent(Tail(sorted), x)

\* allEvents.sort((a, b) => (a.timestamp || 0) - (b.timestamp || 0)): stable
RECURSIVE SortEvents(_)
SortEvents(events) ==
    IF events = << >> THEN << >>
    ELSE InsertEvent(SortEvents(SubSeq(events, 1, Len(events) - 1)),
                     events[Len(events)])

\* ---- responses of the upstream API ----

SourceEntry(source, hasKey, key) ==
    [ source |-> source, blob_key |-> [ has |-> hasKey, v |-> key ] ]

\* a listing of n blobs, newest first, between a realtime source and a blob
\* source without key
ListingSources(n) ==
    << SourceEntry("realtime", TRUE, 1) >>
    \o [ k \in 1..n |-> SourceEntry("blob_v2", TRUE, 2 * (n - k)) ]
    \o << SourceEntry("blob_v2", FALSE, 0) >>

\* a listing of BATCH_SIZE + 1 entries that reports its highest key twice
ListingDuplicate ==
    [ k \in 1..(BATCH_SIZE + 1) |->
        SourceEntry("blob_v2", TRUE, IF k = BATCH_SIZE + 1 THEN BATCH_SIZE - 1 ELSE k - 1) ]

\* the body of an upstream error response: JSON text or not
ErrorBody(json, value) == [ json |-> json, value |-> value ]
NoBody == ErrorBody(FALSE, "")

Listing(threw, ok, status, hasSources, sources) ==
    [ threw |-> threw, ok |-> ok, status |-> status,
      hasSources |-> hasSources, sources |-> sources, errorBody |-> NoBody ]

ListingFailure(status, errorBody) ==
    [ Listing(FALSE, FALSE, status, FALSE, << >>) EXCEPT !.errorBody = errorBody ]

NoListing == Listing(FALSE, FALSE, 0, FALSE, << >>)

ListingResponses ==
    { Listing(FALSE, TRUE, 200, TRUE, ListingSources(n)) : n \in 0..MaxKeys }
    \cup { Listing(FALSE, TRUE, 200, TRUE, ListingDuplicate),
           Listing(FALSE, TRUE, 200, TRUE, << >>),
           Listing(FALSE, TRUE, 200, FALSE, << >>),
           ListingFailure(404, ErrorBody(TRUE, "{\"detail\":\"Not found.\"}")),
           ListingFailure(401, ErrorBody(TRUE, "{\"detail\":\"Invalid API key.\"}")),
           ListingFailure(503, ErrorBody(FALSE, "Service Unavailable")),
           Listing(TRUE, FALSE, 0, FALSE, << >>) }

\* data fields the upstream API sends
GzipObject == Str(Deflate(<< 123, 125 >>))          \* compressed "{}"
GzipNotJson == Str(Deflate(<< 120 >>))              \* compressed "x"
GzipCorrupt == Str(<< 31, 139, 123, 125, 0 >>)      \* magic bytes, bad trailer
PlainString == Str(<< 97, 98 >>)                    \* "ab"
HalfMagic == Str(<< 31, 97 >>)                      \* first magic byte only
EmptyString == Str(<< >>)
PlainObject == Obj("{\"source\":1}")

\* the text of the answer to the request of batch i (0-based): line by line
BodyA(i) ==
    << JsonArray(<< WindowId, Event(Timestamp(5), GzipObject, << i, 1 >>) >>),
       BadJson,
       JsonArray(<< WindowId, Event(NoTimestamp, PlainObject, << i, 3 >>) >>),
       BlankLine,
       JsonArray(<< WindowId, Event(Timestamp(1), PlainObject, << i, 5 >>), WindowId >>),
       JsonArray(<< WindowId, Event(Timestamp(5), PlainString, << i, 6 >>) >>),
       JsonArray(<< WindowId, Event(Timestamp(0), GzipCorrupt, << i, 7 >>) >>) >>

BodyB(i) ==
    << JsonArray(<< WindowId, NullElement >>),
       JsonArray(<< WindowId, Event(Timestamp(3), Undefined, << i, 2 >>) >>),
       JsonObject,
       JsonArray(<< WindowId, Event(Timestamp(5), GzipNotJson, << i, 4 >>) >>),
       JsonArray(<< WindowId, Event(Timestamp(3), HalfMagic, << i, 5 >>) >>),
       JsonArray(<< Event(Timestamp(1), PlainObject, << i, 6 >>) >>),
       JsonArray(<< WindowId, Event(Timestamp(1), EmptyString, << i, 7 >>) >>) >>

BatchAnswer(threw, ok, status, rawText) ==
    [ threw |-> threw, ok |-> ok, status |-> status, rawText |-> rawText ]

BatchResponses(i) ==
    { BatchAnswer(FALSE, TRUE, 200, BodyA(i)),
      BatchAnswer(FALSE, TRUE, 200, BodyB(i)),
      BatchAnswer(FALSE, FALSE, 503, << >>),
      BatchAnswer(TRUE, FALSE, 0, << >>) }

\* ---- one invocation of the route ----

\* the recordings whose route invocations run side by side
RouteIds == { RecordingId(0), RecordingId(1) }

\* NextResponse.json(body, {status})
Respond(status, message, hasSources, sources) ==
    [ status |-> status, error |-> message, hasSources |-> hasSources,
      sources |-> sources, details |-> Absent ]

\* the body of a request: unreadable, or JSON with or without the two fields
Credentials(readable, projectId, apiKey) ==
    [ readable |-> readable, projectId |-> projectId, apiKey |-> apiKey ]
NoCredentials == Credentials(FALSE, Absent, Absent)

CredentialInputs ==
    { NoCredentials }
    \cup { Credentials(TRUE, projectId, apiKey) :
             projectId \in { Absent, "", "12345" }, apiKey \in { Absent, "", "phx_key" } }

\* !value of a string field that may be missing
Falsy(value) == value = Absent \/ value = ""

\* a check that takes an empty string for a value
CredentialsMissing_UndefinedOnly(credentials) ==
    credentials.projectId = Absent \/ credentials.apiKey = Absent

\* !projectId || !apiKey
CredentialsMissing(credentials) ==
    Falsy(credentials.projectId) \/ Falsy(credentials.apiKey)

BadRequest == Respond(400, "Project ID and API Key are required", FALSE, << >>)

NoResponse == Respond(0, "", FALSE, << >>)

IdleRoute ==
    [ pc |-> "idle", listings |-> 0, blobKeys |-> << >>, batches |-> << >>,
      i |-> 0, allEvents |-> << >>, requests |-> << >>, outstanding |-> 0,
      received |-> << >>, response |-> NoResponse,
      credentials |-> NoCredentials, listing |-> NoListing ]

\* a catch block that answers with an empty event list
InternalError_EmptyOk == Respond(200, "", TRUE, << >>)

\* the catch block of the route
InternalError == Respond(500, "Internal server error", FALSE, << >>)

\* await response.json().catch(() => ({})): the details of an error answer
ErrorData(errorBody) == IF errorBody.json THEN errorBody.value ELSE "{}"

\* a route that answers every listing failure as an internal error
SourcesFailure_InternalError(resp) == InternalError

\* if (!sourcesResponse.ok): the answer with the upstream status
SourcesFailure(resp) ==
    [ Respond(resp.status, "Failed to fetch snapshot sources", FALSE, << >>)
        EXCEPT !.details = ErrorData(resp.errorBody) ]

\* start_blob_key and end_blob_key of the request of a batch
BatchRequest(batch) == [ start_blob_key |-> batch[1], end_blob_key |-> batch[Len(batch)] ]

\* every batch requested at once
IssuedBeforeAwait_All(batches, i) ==
    IF i = 0 THEN batches ELSE << >>

\* the batches whose request is sent when the loop reaches batch i: the loop
\* awaits each response before it goes on
IssuedBeforeAwait(batches, i) == << batches[i + 1] >>

SendRequests(r, i) ==
    LET issued == IssuedBeforeAwait(r.batches, i) IN
    [ r EXCEPT !.requests = @ \o [ k \in DOMAIN issued |-> BatchRequest(issued[k]) ],
               !.outstanding = @ + Len(issued) ]

\* ==== the list route: POST /api/replays ====

\* a session recording as the upstream API lists it
Recording(id, duration, clicks, keypresses, ongoing) ==
    [ id |-> id, recording_duration |-> duration, click_count |-> clicks,
      keypress_count |-> keypresses, ongoing |-> ongoing ]

\* the recordings the upstream API may list; ongoing is "true", "false" or
\* "undefined" (missing)
UpstreamRecordings ==
    { Recording("short", 10, 1, 0, "false"),
      Recording("idle", 40, 0, 0, "false"),
      Recording("good", 40, 1, 0, "false"),
      Recording("edge", 30, 0, 1, "false"),
      Recording("almost", 29, 1, 1, "false"),
      Recording("live", 40, 1, 0, "true"),
      Recording("unflagged", 40, 0, 1, "undefined") }

UpstreamResults ==
    UNION { [ 1..n -> UpstreamRecordings ] : n \in 0..MaxListed }

\* the JSON of the upstream listing of recordings
ListData(count, next, previous, hasResults, results) ==
    [ count |-> count, next |-> next, previous |-> previous,
      hasResults |-> hasResults, results |-> results ]
NoData == ListData(0, Null, Null, FALSE, << >>)

ListAnswer(threw, ok, status, data, errorBody) ==
    [ threw |-> threw, ok |-> ok, status |-> status, data |-> data,
      errorBody |-> errorBody ]
NoAnswer == ListAnswer(FALSE, FALSE, 0, NoData, NoBody)

\* the upstream count is the count of the whole project, not of the page
ListAnswers ==
    { ListAnswer(FALSE, TRUE, 200,
                 ListData(Len(results) + 100, cursors[1], cursors[2], TRUE, results), NoBody) :
        results \in UpstreamResults,
        cursors \in { << Null, Null >>, << "https://us.posthog.com/next", "https://us.posthog.com/previous" >> } }
    \cup { ListAnswer(FALSE, TRUE, 200, NoData, NoBody),
           ListAnswer(FALSE, FALSE, 401, NoData, ErrorBody(TRUE, "{\"detail\":\"Invalid API key.\"}")),
           ListAnswer(FALSE, FALSE, 503, NoData, ErrorBody(FALSE, "Service Unavailable")),
           ListAnswer(TRUE, FALSE, 0, NoData, NoBody) }

\* a filter that takes 30 seconds as too short
Retained_OverThirty(recording) ==
    /\ recording.recording_duration > 30
    /\ recording.click_count + recording.keypress_count >= 1
    /\ recording.ongoing = "false"

\* isLongEnough && hasInteraction && isComplete
Retained(recording) ==
    /\ recording.recording_duration >= 30
    /\ recording.click_count + recording.keypress_count >= 1
    /\ recording.ongoing = "false"

\* data.results.filter(...)
FilterRecordings(results) == SelectSeq(results, Retained)

\* NextResponse.json of the list route
ListRespond(status, message, details, data) ==
    [ status |-> status, error |-> message, details |-> details, data |-> data ]
NoListResponse == ListRespond(0, "", Absent, NoData)

\* a response that passes the upstream count on
ListResult_UpstreamCount(data) ==
    ListRespond(200, "", Absent,
                ListData(data.count, data.next, data.previous, TRUE,
                         FilterRecordings(data.results)))

\* { count: filteredRecordings.length, next, previous, results }
ListResult(data) ==
    LET filteredRecordings == FilterRecordings(data.results) IN
    ListRespond(200, "", Absent,
                ListData(Len(filteredRecordings), data.next, data.previous, TRUE,
                         filteredRecordings))

ListInternalError == ListRespond(500, "Internal server error", Absent, NoData)
ListBadRequest == ListRespond(400, "Project ID and API Key are required", Absent, NoData)

IdleListRoute ==
    [ pc |-> "idle", credentials |-> NoCredentials, upstreamCalls |-> 0,
      upstream |-> NoAnswer, response |-> NoListResponse ]

\* ==== Home: the credentials and the feed it mounts ====

\* credentials: 0 while the form is shown, else the number of the submission
\* whose credentials the mounted feed has; orphans: the snapshot requests of
\* unmounted feeds that are still outstanding
Session(credentials, submitted, orphans) ==
    [ credentials |-> credentials, submitted |-> submitted, orphans |-> orphans ]
FirstSession == Session(1, 1, NoPipelines)

\* ---- initial state: mounted, first render committed, list request sent ----

Init ==
    /\ recordings = << >>
    /\ currentIndex = 0
    /\ snapshots = EmptyCache
    /\ isLoading = TRUE
    /\ error = Null
    /\ snapshotError = Null
    /\ fetchingIds = {}
    /\ view = MountClosure
    /\ effectDeps = Deps(MountClosure)
    /\ syncFlush = FALSE
    /\ listRequest = "inflight"
    /\ pipelines = NoPipelines
    /\ failures = 0
    /\ last = NoOp("mount")
    /\ route = [ id \in RouteIds |-> IdleRoute ]
    /\ listRoute = IdleListRoute
    /\ session = FirstSession

\* ---- the list request returns ----

ListResponseOk(n) ==
    /\ listRequest = "inflight"
    /\ ~Flushing
    /\ LET results == [ i \in 1..n |-> RecordingId(i - 1) ]
           f == IF n > 0
                THEN prefetchRecordings(FetchState, MountClosure, results, 0)
                ELSE FetchState
       IN /\ recordings' = results
          /\ fetchingIds' = f.fetchingIds
          /\ snapshotError' = f.snapshotError
          /\ pipelines' = f.pipelines
          /\ last' = [ NoOp("list_ok") EXCEPT
                         !.calls = IF n > 0 THEN PrefetchCalls(results, 0) ELSE << >>,
                         !.started = f.started ]
    /\ isLoading' = FALSE
    /\ listRequest' = "done"
    /\ syncFlush' = FALSE
    /\ UNCHANGED << currentIndex, snapshots, error, view, effectDeps, failures, route,
                    listRoute, session >>

\* a catch without the finally that clears the loading flag
ListResponseFail_StillLoading ==
    /\ listRequest = "inflight"
    /\ ~Flushing
    /\ error' = "Failed to load recordings. Check your credentials."
    /\ listRequest' = "done"
    /\ syncFlush' = FALSE
    /\ last' = NoOp("list_fail")
    /\ UNCHANGED << recordings, currentIndex, snapshots, isLoading, snapshotError,
                    fetchingIds, view, effectDeps, pipelines, failures, route,
                    listRoute, session >>

\* the list request is answered with a non-ok status or throws:
\* catch { setError(...) } finally { setIsLoading(false) }
ListResponseFail ==
    /\ listRequest = "inflight"
    /\ ~Flushing
    /\ error' = "Failed to load recordings. Check your credentials."
    /\ isLoading' = FALSE
    /\ listRequest' = "done"
    /\ syncFlush' = FALSE
    /\ last' = NoOp("list_fail")
    /\ UNCHANGED << recordings, currentIndex, snapshots, snapshotError,
                    fetchingIds, view, effectDeps, pipelines, failures, route,
                    listRoute, session >>

\* ---- React: commit a render, run the index effect ----

Render ==
    /\ Dirty
    /\ ~EffectPending
    /\ view' = Live
    /\ last' = NoOp("render")
    /\ UNCHANGED << recordings, currentIndex, snapshots, isLoading, error,
                    snapshotError, fetchingIds, effectDeps, syncFlush,
                    listRequest, pipelines, failures, route,
                    listRoute, session >>

\* useEffect(() => { if (recordings.length > 0) prefetchRecordings(...) },
\*           [currentIndex, recordings])
IndexEffect ==
    /\ EffectPending
    /\ LET run == Len(view.recordings) > 0
           f == IF run
                THEN prefetchRecordings(FetchState, view, view.recordings,
                                        view.currentIndex)
                ELSE FetchState
       IN /\ fetchingIds' = f.fetchingIds
          /\ snapshotError' = f.snapshotError
          /\ pipelines' = f.pipelines
          /\ last' = [ NoOp("effect") EXCEPT
                         !.calls = IF run
                                   THEN PrefetchCalls(view.recordings, view.currentIndex)
                                   ELSE << >>,
                         !.started = f.started,
                         !.id = view.currentIndex ]
    /\ effectDeps' = Deps(view)
    /\ UNCHANGED << recordings, currentIndex, snapshots, isLoading, error,
                    view, syncFlush, listRequest, failures, route,
                    listRoute, session >>

\* ---- what the last render shows ----

\* the full page with the message and "Try Different Credentials"
ErrorPageShown == ~view.isLoading /\ view.error # Null
FeedShown == ~view.isLoading /\ view.error = Null /\ Len(view.recordings) > 0
ViewRecording == At(view.recordings, view.currentIndex)
RetryShown == FeedShown /\ view.snapshotError # Null
PlayerShown == /\ FeedShown
               /\ view.snapshotError = Null
               /\ ViewRecording \in DOMAIN view.snapshots

\* ---- navigation ----

\* a navigation that leaves the error on screen
GoTo_KeepsError(index, op, sync) ==
    /\ currentIndex' = index
    /\ syncFlush' = sync
    /\ last' = [ NoOp(op) EXCEPT !.id = index ]
    /\ UNCHANGED << recordings, snapshots, isLoading, error, snapshotError,
                    fetchingIds, view, effectDeps, listRequest, pipelines,
                    failures, route, listRoute, session >>

\* a navigation that also forgets what is in flight
GoTo_ResetsInFlight(index, op, sync) ==
    /\ currentIndex' = index
    /\ snapshotError' = Null
    /\ fetchingIds' = {}
    /\ syncFlush' = sync
    /\ last' = [ NoOp(op) EXCEPT !.id = index ]
    /\ UNCHANGED << recordings, snapshots, isLoading, error,
                    view, effectDeps, listRequest, pipelines, failures, route,
                    listRoute, session >>

\* setCurrentIndex(index); setSnapshotError(null)
GoTo(index, op, sync) ==
    /\ currentIndex' = index
    /\ snapshotError' = Null
    /\ syncFlush' = sync
    /\ last' = [ NoOp(op) EXCEPT !.id = index ]
    /\ UNCHANGED << recordings, snapshots, isLoading, error, fetchingIds,
                    view, effectDeps, listRequest, pipelines, failures, route,
                    listRoute, session >>

\* handleNext from the Next button
ClickNext ==
    /\ FeedShown /\ ~Flushing
    /\ view.currentIndex < Len(view.recordings) - 1
    /\ GoTo(view.currentIndex + 1, "next", TRUE)

\* handlePrevious from the Previous button
ClickPrevious ==
    /\ FeedShown /\ ~Flushing
    /\ view.currentIndex > 0
    /\ GoTo(view.currentIndex - 1, "previous", TRUE)

\* handleNext as the player's onFinish
PlayerFinished ==
    /\ PlayerShown /\ ~Flushing
    /\ view.currentIndex < Len(view.recordings) - 1
    /\ GoTo(view.currentIndex + 1, "finish", FALSE)

\* handleScroll after its debounce timer
HandleScroll(newIndex) ==
    /\ FeedShown /\ ~Flushing
    /\ newIndex # view.currentIndex
    /\ newIndex >= 0
    /\ newIndex < Len(view.recordings)
    /\ GoTo(newIndex, "scroll", FALSE)

\* handleWheel of the window's wheel listener: debounced says that the last
\* accepted wheel event is less than 1500 ms old
HandleWheel(deltaY, debounced) ==
    /\ ~Flushing
    /\ ~debounced
    /\ ~(deltaY > -50 /\ deltaY < 50)
    /\ \/ /\ deltaY > 0
          /\ view.currentIndex < Len(view.recordings) - 1
          /\ GoTo(view.currentIndex + 1, "wheel_next", FALSE)
       \/ /\ deltaY < 0
          /\ view.currentIndex > 0
          /\ GoTo(view.currentIndex - 1, "wheel_previous", FALSE)

WheelDeltas == { -100, -10, 10, 100 }

\* ---- the Retry button ----

ClickRetry ==
    /\ RetryShown /\ ~Flushing
    /\ LET f == fetchSnapshotsForRecording(FetchState, view, ViewRecording, TRUE)
       IN /\ fetchingIds' = f.fetchingIds
          /\ snapshotError' = f.snapshotError
          /\ pipelines' = f.pipelines
          /\ last' = [ NoOp("retry") EXCEPT !.started = f.started,
                                            !.id = ViewRecording,
                                            !.primary = TRUE ]
    /\ syncFlush' = TRUE
    /\ UNCHANGED << recordings, currentIndex, snapshots, isLoading, error,
                    view, effectDeps, listRequest, failures, route,
                    listRoute, session >>

\* ---- a snapshot request returns: the rest of fetchSnapshotsForRecording ----

Complete(recordingId, isPrimary, resp) ==
    /\ pipelines[<<recordingId, isPrimary>>] > 0
    /\ ~Flushing
    /\ LET out == FetchOutcome(resp) IN
       /\ out.tag = "err" => failures < MaxFailures
       /\ failures' = IF out.tag = "err" THEN failures + 1 ELSE failures
       /\ snapshots' = StoreSnapshots(snapshots, recordingId, out)
       /\ snapshotError' = CatchError(snapshotError, isPrimary, out)
    /\ fetchingIds' = FinallyRelease(fetchingIds, recordingId)
    /\ pipelines' = [ pipelines EXCEPT ![<<recordingId, isPrimary>>] = @ - 1 ]
    /\ syncFlush' = FALSE
    /\ last' = [ NoOp("complete") EXCEPT !.id = recordingId,
                                         !.primary = isPrimary,
                                         !.kind = resp.kind,
                                         !.data = resp.data ]
    /\ UNCHANGED << recordings, currentIndex, isLoading, error, view,
                    effectDeps, listRequest, route,
                    listRoute, session >>

Next ==
    \/ \E n \in 0..MaxRecs : ListResponseOk(n)
    \/ ListResponseFail
    \/ Render
    \/ IndexEffect
    \/ ClickNext
    \/ ClickPrevious
    \/ PlayerFinished
    \/ \E newIndex \in 0..(MaxRecs - 1) : HandleScroll(newIndex)
    \/ ClickRetry
    \/ \E id \in AllIds, p \in BOOLEAN : \E resp \in Responses(id) : Complete(id, p, resp)

Spec == Init /\ [][Next]_vars

\* the same component with a list longer than the prefetch window, on a
\* network where every snapshot request succeeds
NextLong ==
    \/ ListResponseOk(LongRecs)
    \/ Render
    \/ IndexEffect
    \/ ClickNext
    \/ ClickPrevious
    \/ PlayerFinished
    \/ \E id \in AllIds, p \in BOOLEAN :
          \E resp \in { r \in Responses(id) : r.kind = "ok" } : Complete(id, p, resp)

SpecLong == Init /\ [][NextLong]_vars


\* the component under fair scheduling: every network call eventually
\* returns; a pending render and a pending effect eventually run
LiveIds == { RecordingId(i) : i \in 0..(LiveRecs - 1) }

NextLive ==
    \/ \E n \in 0..LiveRecs : ListResponseOk(n)
    \/ ListResponseFail
    \/ Render
    \/ IndexEffect
    \/ ClickNext
    \/ ClickPrevious
    \/ PlayerFinished
    \/ \E newIndex \in 0..(LiveRecs - 1) : HandleScroll(newIndex)
    \/ ClickRetry
    \/ \E id \in LiveIds, p \in BOOLEAN : \E resp \in Responses(id) : Complete(id, p, resp)

SpecLive ==
    /\ Init /\ [][NextLive]_vars
    /\ WF_vars(Render)
    /\ WF_vars(IndexEffect)
    /\ \A id \in LiveIds :
          SF_vars(\E p \in BOOLEAN : \E resp \in Responses(id) : Complete(id, p, resp))

\* the component with the wheel listener
NextWheel ==
    \/ Next
    \/ \E deltaY \in WheelDeltas, debounced \in BOOLEAN : HandleWheel(deltaY, debounced)

SpecWheel == Init /\ [][NextWheel]_vars

\* the component on a network whose answers carry every shape of body
ShapeIds == LiveIds

NextShapes ==
    \/ \E n \in 1..LiveRecs : ListResponseOk(n)
    \/ Render
    \/ IndexEffect
    \/ ClickRetry
    \/ \E id \in ShapeIds, p \in BOOLEAN :
          \E k \in DOMAIN ShapeBodies(id) :
             Complete(id, p, ShapeResponse(ShapeBodies(id)[k]))

SpecShapes == Init /\ [][NextShapes]_vars

\* ---- Home: logout and new credentials ----

\* the setter of useLocalStorage('posthog-credentials', null): the stored
\* credentials become the value set
setCredentials(s, value) == [ s EXCEPT !.credentials = value ]

\* {!credentials ? <CredentialsForm/> : <ReplayFeed/>}
Mounted == session.credentials # 0

AddPipelines(a, b) == [ k \in DOMAIN a |-> a[k] + b[k] ]

\* an update that reaches the feed on screen
DiscardedUpdate_Applied(current, update) == update

\* a state update made by a call of a feed that is no longer mounted: it
\* goes to the state of that feed, which is gone
DiscardedUpdate(current, update) == current

\* handleLogout from one of the logout buttons: the feed is unmounted with
\* its state, its requests stay in flight
handleLogout ==
    /\ Mounted
    /\ ~view.isLoading /\ ~Flushing
    /\ session' = [ setCredentials(session, 0) EXCEPT
                      !.orphans = AddPipelines(@, pipelines) ]
    /\ recordings' = << >>
    /\ currentIndex' = 0
    /\ snapshots' = EmptyCache
    /\ isLoading' = TRUE
    /\ error' = Null
    /\ snapshotError' = Null
    /\ fetchingIds' = {}
    /\ view' = MountClosure
    /\ effectDeps' = Deps(MountClosure)
    /\ syncFlush' = FALSE
    /\ listRequest' = "idle"
    /\ pipelines' = NoPipelines
    /\ last' = NoOp("logout")
    /\ UNCHANGED << failures, route, listRoute >>

\* handleCredentialsSubmit from the form: a new feed is mounted with the
\* initial values of its useState calls, and its mount effect sends the
\* list request
handleCredentialsSubmit ==
    /\ ~Mounted
    /\ session.submitted < MaxSessions
    /\ session' = [ setCredentials(session, session.submitted + 1) EXCEPT
                      !.submitted = @ + 1 ]
    /\ recordings' = << >>
    /\ currentIndex' = 0
    /\ snapshots' = EmptyCache
    /\ isLoading' = TRUE
    /\ error' = Null
    /\ snapshotError' = Null
    /\ fetchingIds' = {}
    /\ view' = MountClosure
    /\ effectDeps' = Deps(MountClosure)
    /\ syncFlush' = FALSE
    /\ listRequest' = "inflight"
    /\ pipelines' = NoPipelines
    /\ last' = NoOp("mount")
    /\ UNCHANGED << failures, route, listRoute >>

\* a snapshot request of an unmounted feed returns: the rest of its
\* fetchSnapshotsForRecording runs
OrphanComplete(recordingId, isPrimary, resp) ==
    /\ session.orphans[<<recordingId, isPrimary>>] > 0
    /\ ~Flushing
    /\ LET out == FetchOutcome(resp) IN
       /\ snapshots' = DiscardedUpdate(snapshots,
                                       StoreSnapshots(snapshots, recordingId, out))
       /\ snapshotError' = DiscardedUpdate(snapshotError,
                                           CatchError(snapshotError, isPrimary, out))
    /\ fetchingIds' = DiscardedUpdate(fetchingIds,
                                      FinallyRelease(fetchingIds, recordingId))
    /\ session' = [ session EXCEPT !.orphans[<<recordingId, isPrimary>>] = @ - 1 ]
    /\ last' = [ NoOp("orphan") EXCEPT !.id = recordingId,
                                       !.primary = isPrimary,
                                       !.kind = resp.kind ]
    /\ UNCHANGED << recordings, currentIndex, isLoading, error, view,
                    effectDeps, syncFlush, listRequest, pipelines, failures,
                    route, listRoute >>

NextSession ==
    \/ \E n \in 0..LiveRecs : ListResponseOk(n)
    \/ ListResponseFail
    \/ Render
    \/ IndexEffect
    \/ ClickNext
    \/ ClickRetry
    \/ \E id \in LiveIds, p \in BOOLEAN : \E resp \in Responses(id) : Complete(id, p, resp)
    \/ handleLogout
    \/ handleCredentialsSubmit
    \/ \E id \in LiveIds, p \in BOOLEAN :
          \E resp \in Responses(id) : OrphanComplete(id, p, resp)

SpecSession == Init /\ [][NextSession]_vars

\* ---- the snapshot route, step by step ----

RouteUnchanged ==
    UNCHANGED << recordings, currentIndex, snapshots, isLoading, error,
                 snapshotError, fetchingIds, view, effectDeps, syncFlush,
                 listRequest, pipelines, failures, last, listRoute, session >>

\* POST arrives: credential check, then the listing request
RouteRequest(id, credentials) ==
    /\ route[id].pc = "idle"
    /\ route' = [ route EXCEPT ![id] =
         IF ~credentials.readable
         THEN [ @ EXCEPT !.pc = "done", !.credentials = credentials,
                         !.response = InternalError ]
         ELSE IF CredentialsMissing(credentials)
         THEN [ @ EXCEPT !.pc = "done", !.credentials = credentials,
                         !.response = BadRequest ]
         ELSE [ @ EXCEPT !.pc = "listing", !.credentials = credentials,
                         !.listings = 1 ] ]
    /\ RouteUnchanged

\* the listing request returns: resolve the keys, build the batches, send
\* the request of the first batch
ListingResponse(id, resp) ==
    /\ route[id].pc = "listing"
    /\ LET r == [ route[id] EXCEPT !.listing = resp ]
           blobKeys == SortKeys(ResolveKeys(resp.sources))
           finished(response) == [ r EXCEPT !.pc = "done", !.response = response ]
       IN route' = [ route EXCEPT ![id] =
            IF resp.threw THEN finished(InternalError)
            ELSE IF ~resp.ok
                THEN finished(SourcesFailure(resp))
            ELSE IF ~resp.hasSources \/ Len(resp.sources) = 0
                THEN finished(Respond(200, "", TRUE, << >>))
            ELSE IF Len(blobKeys) = 0
                THEN [ finished(Respond(200, "", TRUE, << >>)) EXCEPT !.blobKeys = blobKeys ]
            ELSE SendRequests([ r EXCEPT !.pc = "batch",
                                         !.blobKeys = blobKeys,
                                         !.batches = Batches(blobKeys),
                                         !.i = 0 ], 0) ]
    /\ RouteUnchanged

\* the request of batch i returns: decode its lines, then go on with batch
\* i + 1 or sort and answer
BatchResponse(id, resp) ==
    /\ route[id].pc = "batch"
    /\ LET r == [ route[id] EXCEPT !.outstanding = @ - 1,
                                   !.received = Append(@, resp) ]
           events == IF resp.ok THEN DecodeLines(SplitLines(resp.rawText)) ELSE << >>
           allEvents == r.allEvents \o events
       IN route' = [ route EXCEPT ![id] =
            IF resp.threw
                THEN [ r EXCEPT !.pc = "done", !.response = InternalError ]
            ELSE IF r.i + 1 < Len(r.batches)
                THEN SendRequests([ r EXCEPT !.allEvents = allEvents, !.i = @ + 1 ],
                                  r.i + 1)
            ELSE [ r EXCEPT !.pc = "done",
                            !.allEvents = allEvents,
                            !.response = Respond(200, "", TRUE, SortEvents(allEvents)) ] ]
    /\ RouteUnchanged

NextRoute ==
    \/ \E id \in RouteIds, credentials \in CredentialInputs : RouteRequest(id, credentials)
    \/ \E id \in RouteIds : \E resp \in ListingResponses : ListingResponse(id, resp)
    \/ \E id \in RouteIds : \E resp \in BatchResponses(route[id].i) : BatchResponse(id, resp)

SpecRoute == Init /\ [][NextRoute]_vars

\* ---- the list route, step by step ----

ListRouteUnchanged ==
    UNCHANGED << recordings, currentIndex, snapshots, isLoading, error,
                 snapshotError, fetchingIds, view, effectDeps, syncFlush,
                 listRequest, pipelines, failures, last, route, session >>

\* POST arrives: credential check, then the upstream request
ListRouteRequest(credentials) ==
    /\ listRoute.pc = "idle"
    /\ listRoute' =
         IF ~credentials.readable
         THEN [ listRoute EXCEPT !.pc = "done", !.credentials = credentials,
                                 !.response = ListInternalError ]
         ELSE IF CredentialsMissing(credentials)
         THEN [ listRoute EXCEPT !.pc = "done", !.credentials = credentials,
                                 !.response = ListBadRequest ]
         ELSE [ listRoute EXCEPT !.pc = "upstream", !.credentials = credentials,
                                 !.upstreamCalls = 1 ]
    /\ ListRouteUnchanged

\* the upstream request returns: forward a failure, or filter and answer
ListUpstreamResponse(resp) ==
    /\ listRoute.pc = "upstream"
    /\ listRoute' =
         [ listRoute EXCEPT
             !.pc = "done",
             !.upstream = resp,
             !.response =
                 IF resp.threw THEN ListInternalError
                 ELSE IF ~resp.ok
                     THEN ListRespond(resp.status, "Failed to fetch recordings from PostHog",
                                      ErrorData(resp.errorBody), NoData)
                 ELSE IF ~resp.data.hasResults THEN ListInternalError
                 ELSE ListResult(resp.data) ]
    /\ ListRouteUnchanged

\* both endpoints: the list route, and the snapshot route up to its listing
\* request
NextList ==
    \/ \E credentials \in CredentialInputs : ListRouteRequest(credentials)
    \/ \E resp \in ListAnswers : ListUpstreamResponse(resp)
    \/ \E id \in RouteIds, credentials \in CredentialInputs : RouteRequest(id, credentials)

SpecList == Init /\ [][NextList]_vars

\* ---- properties ----

StartedIds(l) == { l.started[k][1] : k \in DOMAIN l.started }
CalledIds(l) == { l.calls[k][1] : k \in DOMAIN l.calls }
IsPrefetch(l) == l.op \in {"list_ok", "effect"}
Cached(id) == id \in DOMAIN snapshots

\* the recordings of the first prefetch window: all of them were requested
\* when the list arrived
FirstWindowIds ==
    { At(recordings, i) : i \in 0..(Min(PrefetchCount, Len(recordings)) - 1) }

\* C1: two overlapping invocations of fetchSnapshotsForRecording for the same
\* recording start one pipeline only: at no time are two snapshot requests
\* for the same recording outstanding.
C1_AtMostOnePipelinePerRecording ==
    \A id \in AllIds : InFlight(pipelines, id) <= 1

\* C2: an invocation of fetchSnapshotsForRecording for a recording that is in
\* the cache issues no request, and (the Retry button, which makes one call)
\* leaves cache, in-flight set and snapshot error unchanged.
C2_CachedFetchIsNoOp ==
    [][ \A id \in DOMAIN snapshots :
          /\ (IsPrefetch(last') /\ id \in CalledIds(last'))
                => id \notin StartedIds(last')
          /\ (last'.op = "retry" /\ last'.id = id)
                => /\ last'.started = << >>
                   /\ snapshots' = snapshots
                   /\ fetchingIds' = fetchingIds
                   /\ snapshotError' = snapshotError ]_vars

\* C3: a recording is in the in-flight set exactly when a snapshot request
\* for it has been started and has not ended.
C3_InFlightSetMatchesPipelines ==
    \A id \in AllIds : (id \in fetchingIds) <=> (InFlight(pipelines, id) > 0)

\* C6: the failure of a fetch for a recording other than the one at
\* currentIndex never changes the snapshot error.
C6_OnlyActiveFailureSurfaces ==
    [][ ( /\ last'.op = "complete"
          /\ last'.kind # "ok"
          /\ last'.id # At(recordings, currentIndex) )
        => snapshotError' = snapshotError ]_vars

\* C9: when a recording of the first window is neither cached nor in flight
\* (so its fetch has failed), an invocation of prefetchRecordings whose
\* window contains it starts a request for it, as primary exactly when it is
\* the first of the window.
C9_FailedFetchRetriedOnNextVisit ==
    [][ \A k \in DOMAIN last'.calls :
          LET id == last'.calls[k][1] IN
          ( /\ last'.op = "effect"
            /\ id \in FirstWindowIds
            /\ ~Cached(id)
            /\ id \notin fetchingIds )
          => \E j \in DOMAIN last'.started : last'.started[j] = << id, k = 1 >> ]_vars

\* C10: when the position has advanced from i to i+1 and every recording of
\* the window [i, min(i+5, length)) is cached or in flight, the prefetch of
\* index i+1 starts at most one request, and only for the recording at i+5.
C10_SteadyStateStartsAtMostOne ==
    [][ LET i == effectDeps.currentIndex
            n == Len(view.recordings)
        IN ( /\ last'.op = "effect"
             /\ effectDeps.recordings = view.recordings
             /\ view.currentIndex = i + 1
             /\ \A k \in i..(Min(i + PrefetchCount, n) - 1) :
                   \/ Cached(At(view.recordings, k))
                   \/ At(view.recordings, k) \in fetchingIds )
           => /\ Len(last'.started) <= 1
              /\ \A id \in StartedIds(last') :
                    i + 5 < n /\ id = At(view.recordings, i + 5) ]_vars

\* the message a failed fetch of each kind is expected to show
ExpectedMessage(kind) ==
    CASE kind = "http"    -> "HTTP 500: Internal server error"
      [] kind = "empty"   -> "No snapshot data found in response"
      [] kind = "unknown" -> "Unknown snapshot data format"
      [] kind = "threw"   -> "Failed to fetch"
      [] OTHER            -> Null

\* C4: every recording that is in the in-flight set is eventually out of it,
\* whatever the outcome of its fetch, when every network call returns.
C4_InFlightReleased ==
    \A id \in LiveIds : (id \in fetchingIds) ~> (id \notin fetchingIds)

\* a failed fetch has just ended and its recording has left the in-flight set
C4_Witness ==
    /\ last.op = "complete"
    /\ last.kind # "ok"
    /\ last.id \notin fetchingIds
    /\ InFlight(pipelines, last.id) = 0

TenRecordings == [ i \in 1..10 |-> RecordingId(i - 1) ]
CallIndices(calls) == [ k \in DOMAIN calls |-> calls[k][1] - RecordingId(0) ]
CallFlags(calls) == [ k \in DOMAIN calls |-> calls[k][2] ]

\* C5: prefetchRecordings(list, fromIndex) calls fetchSnapshotsForRecording
\* for the indices fromIndex .. min(fromIndex+5, length)-1, ascending, with
\* isPrimary true for fromIndex only; from 3 of 10 it requests 3,4,5,6,7 and
\* from 8 of 10 only 8,9.
C5_PrefetchWindow ==
    /\ (IsPrefetch(last) /\ Len(recordings) > 0) =>
          LET from == IF last.op = "list_ok" THEN 0 ELSE last.id
              n == Len(recordings)
              hi == IF from + 5 < n THEN from + 5 ELSE n
          IN /\ Len(last.calls) = hi - from
             /\ \A k \in 1..Len(last.calls) :
                   last.calls[k] = << At(recordings, from + k - 1), k = 1 >>
    /\ CallIndices(PrefetchCalls(TenRecordings, 3)) = << 3, 4, 5, 6, 7 >>
    /\ CallFlags(PrefetchCalls(TenRecordings, 3)) = << TRUE, FALSE, FALSE, FALSE, FALSE >>
    /\ CallIndices(PrefetchCalls(TenRecordings, 8)) = << 8, 9 >>

\* the index effect has prefetched a full window of five from index 1
C5_Witness ==
    /\ last.op = "effect"
    /\ last.id = 1
    /\ CallIndices(last.calls) = << 1, 2, 3, 4, 5 >>
    /\ Len(recordings) > 5

\* C7: a failing primary fetch sets the snapshot error to its message, a
\* failing background fetch leaves the snapshot error as it is; a failed
\* fetch leaves the cache unchanged and its recording out of the in-flight
\* set; a successful fetch stores its stream under its id, primary or not.
C7_PrimaryFlagOnlySurfacesError ==
    [][ last'.op = "complete" =>
          IF last'.kind = "ok"
          THEN /\ last'.id \in DOMAIN snapshots'
               /\ snapshots'[last'.id] = StreamOf(last'.id)
               /\ last'.id \notin fetchingIds'
          ELSE /\ snapshots' = snapshots
               /\ last'.id \notin fetchingIds'
               /\ last'.primary => snapshotError' = ExpectedMessage(last'.kind)
               /\ ~last'.primary => snapshotError' = snapshotError ]_vars

\* a background fetch has just failed while an earlier primary failure is shown
C7_Witness ==
    /\ last.op = "complete"
    /\ last.kind # "ok"
    /\ ~last.primary
    /\ snapshotError # Null
    /\ snapshotError # ExpectedMessage(last.kind)
    /\ ~Cached(last.id)

\* C8: a fetch that yields zero events writes nothing to the cache; it sets
\* the snapshot error when primary and leaves it when background; every
\* stream in the cache is non-empty.
C8_EmptyResultNotCached ==
    /\ [](\A id \in DOMAIN snapshots : Len(snapshots[id]) > 0)
    /\ [][ (last'.op = "complete" /\ last'.kind = "empty") =>
             /\ snapshots' = snapshots
             /\ last'.primary =>
                   snapshotError' = "No snapshot data found in response"
             /\ ~last'.primary => snapshotError' = snapshotError ]_vars

\* a primary fetch has just yielded zero events
C8_Witness ==
    /\ last.op = "complete"
    /\ last.kind = "empty"
    /\ last.primary
    /\ snapshotError = "No snapshot data found in response"
    /\ ~Cached(last.id)

\* C11: Retry, shown with the snapshot error of the active recording, calls
\* the fetch as primary for that recording only; when the recording is
\* neither cached nor in flight the call starts exactly one request, for that
\* recording, and clears the snapshot error; a primary fetch that succeeds
\* caches the stream and leaves the error as it is, one that fails sets it.
C11_RetryRefetchesActiveRecording ==
    [][ /\ ( /\ last'.op = "retry"
             /\ ~Cached(last'.id)
             /\ last'.id \notin fetchingIds )
           => /\ last'.started = << << last'.id, TRUE >> >>
              /\ snapshotError' = Null
              /\ last'.id \in fetchingIds'
        /\ last'.op = "retry"
           => /\ last'.id = At(view.recordings, view.currentIndex)
              /\ StartedIds(last') \subseteq { last'.id }
        /\ (last'.op = "complete" /\ last'.primary)
           => IF last'.kind = "ok"
              THEN /\ last'.id \in DOMAIN snapshots'
                   /\ snapshotError' = snapshotError
              ELSE snapshotError' = ExpectedMessage(last'.kind) ]_vars

\* index of a recording in the list
IndexOf(id) == id - RecordingId(0)
InWindow(id) == IndexOf(id) >= currentIndex /\ IndexOf(id) < currentIndex + PrefetchCount

\* C12: a fetch that succeeds stores its stream under its id also when the
\* user has navigated so that the recording is outside the current prefetch
\* window; a navigation step leaves the outstanding requests, the in-flight
\* set and the cache as they are.
C12_NoCancellation ==
    [][ /\ (last'.op = "complete" /\ last'.kind = "ok")
           => /\ last'.id \in DOMAIN snapshots'
              /\ snapshots'[last'.id] = StreamOf(last'.id)
        /\ last'.op \in {"next", "previous", "finish", "scroll"}
           => /\ pipelines' = pipelines
              /\ fetchingIds' = fetchingIds
              /\ snapshots' = snapshots ]_vars

\* the fetch of a recording the user has moved past has just succeeded
C12_Witness ==
    /\ last.op = "complete"
    /\ last.kind = "ok"
    /\ ~InWindow(last.id)
    /\ Cached(last.id)
    /\ snapshots[last.id] = StreamOf(last.id)

\* ---- properties of the snapshot route ----

\* the route has answered with an event list
Answered(id) == route[id].pc = "done" /\ route[id].response.status = 200
Returned(id) == route[id].response.sources

\* the ordering key of an event: its timestamp, 0 when it has none
OrderKey(event) == IF event.timestamp.has THEN event.timestamp.v ELSE 0

\* position of an event in the order of decoding
DecodedAt(id, event) == CHOOSE k \in DOMAIN route[id].allEvents : route[id].allEvents[k] = event

\* C13: the event list the route returns is sorted non-decreasing by
\* timestamp, a missing timestamp counting as 0, and events with equal keys
\* are in the order in which they were decoded (batch by batch, line by line).
C13_SortedStableByTimestamp ==
    \A id \in RouteIds : Answered(id) =>
        \A a, b \in DOMAIN Returned(id) : a < b =>
            /\ OrderKey(Returned(id)[a]) <= OrderKey(Returned(id)[b])
            /\ OrderKey(Returned(id)[a]) = OrderKey(Returned(id)[b])
                  => DecodedAt(id, Returned(id)[a]) < DecodedAt(id, Returned(id)[b])

\* a returned list of two batches that was reordered by the sort, with equal
\* timestamps across the batches and an event without timestamp
C13_Witness ==
    \E id \in RouteIds :
        /\ Answered(id)
        /\ Returned(id) # route[id].allEvents
        /\ \E a, b \in DOMAIN Returned(id) :
              /\ a < b
              /\ OrderKey(Returned(id)[a]) = OrderKey(Returned(id)[b])
              /\ Returned(id)[a].origin[1] # Returned(id)[b].origin[1]
        /\ \E a \in DOMAIN Returned(id) : ~Returned(id)[a].timestamp.has

\* the route has resolved keys and built its batches
Batched(id) == route[id].batches # << >>

\* C14: the N resolved keys, sorted ascending, are cut into ceil(N/20)
\* batches, none empty and none longer than 20, whose concatenation in order
\* is the sorted key sequence.
C14_BatchPartition ==
    \A id \in RouteIds : Len(route[id].blobKeys) > 0 =>
        LET keys == route[id].blobKeys
            batches == route[id].batches
            N == Len(keys)
        IN /\ \A k \in 1..(N - 1) : keys[k] <= keys[k + 1]
           /\ Len(batches) = (N + 19) \div 20
           /\ \A b \in DOMAIN batches : Len(batches[b]) >= 1 /\ Len(batches[b]) <= 20
           /\ Flat(batches) = keys

\* 41 keys in three batches, the last of a single key
C14_Witness ==
    \E id \in RouteIds :
        /\ Len(route[id].blobKeys) = 41
        /\ Len(route[id].batches) = 3
        /\ Len(route[id].batches[3]) = 1

KeysOf(batch) == { batch[k] : k \in DOMAIN batch }
MinKey(batch) == CHOOSE m \in KeysOf(batch) : \A x \in KeysOf(batch) : m <= x
MaxKey(batch) == CHOOSE m \in KeysOf(batch) : \A x \in KeysOf(batch) : m >= x

\* C15: the k-th upstream batch request of an invocation is the request of
\* batch k, from the smallest to the largest key of that batch; a batch is
\* never requested twice, and an invocation that answers with its event list
\* has requested every batch once.
C15_RequestSpansBatch ==
    \A id \in RouteIds :
        LET r == route[id] IN
        /\ Len(r.requests) <= Len(r.batches)
        /\ \A k \in DOMAIN r.requests :
              r.requests[k] = [ start_blob_key |-> MinKey(r.batches[k]),
                                end_blob_key |-> MaxKey(r.batches[k]) ]
        /\ r.pc = "batch" => Len(r.requests) = r.i + 1
        /\ (Answered(id) /\ Batched(id)) => Len(r.requests) = Len(r.batches)

\* an invocation has answered after two batches, the second of a single key
C15_Witness ==
    \E id \in RouteIds :
        /\ Answered(id)
        /\ Len(route[id].batches) = 2
        /\ Len(route[id].batches[2]) = 1
        /\ route[id].requests[2].start_blob_key = route[id].requests[2].end_blob_key
        /\ route[id].requests[1].start_blob_key < route[id].requests[1].end_blob_key

\* the events of the batch answers an invocation has received, in order
RECURSIVE DecodedFrom(_)
DecodedFrom(answers) ==
    IF answers = << >> THEN << >>
    ELSE (IF Head(answers).ok /\ ~Head(answers).threw
          THEN DecodeLines(SplitLines(Head(answers).rawText)) ELSE << >>)
         \o DecodedFrom(Tail(answers))

\* C16: an invocation has at most one batch request outstanding; it sends
\* the requests in ascending key order; while the request of a batch is
\* outstanding, the answer of every earlier batch has been received and its
\* lines decoded.  (Invocations for different recordings run side by side:
\* the witness.)
C16_BatchesSequential ==
    \A id \in RouteIds :
        LET r == route[id] IN
        /\ r.outstanding <= 1
        /\ Len(r.received) = Len(r.requests) - r.outstanding
        /\ \A k \in 1..(Len(r.requests) - 1) :
              r.requests[k].start_blob_key <= r.requests[k + 1].start_blob_key
        /\ r.pc = "batch" =>
              /\ r.outstanding = 1
              /\ Len(r.received) = r.i
              /\ r.allEvents = DecodedFrom(r.received)

\* two invocations each wait for a batch answer, one of them for its second
\* batch after decoding the events of its first
C16_Witness ==
    /\ \A id \in RouteIds : route[id].pc = "batch" /\ route[id].outstanding = 1
    /\ \E id \in RouteIds : route[id].i = 1 /\ Len(route[id].allEvents) > 0

\* C17: when the request of a batch fails (non-success status, or the call
\* itself fails), the batch adds no events, the request of the next batch is
\* sent, and after the last batch the route answers 200 with the sorted
\* events of the batches that succeeded.
C17_BatchFailureTolerated ==
    [][ \A id \in RouteIds :
          ( /\ route[id].pc = "batch"
            /\ Len(route'[id].received) = Len(route[id].received) + 1
            /\ LET answer == route'[id].received[Len(route'[id].received)]
               IN answer.threw \/ ~answer.ok )
          => /\ route'[id].allEvents = route[id].allEvents
             /\ IF route[id].i + 1 < Len(route[id].batches)
                THEN /\ route'[id].pc = "batch"
                     /\ route'[id].i = route[id].i + 1
                     /\ Len(route'[id].requests) = Len(route[id].requests) + 1
                ELSE /\ route'[id].pc = "done"
                     /\ route'[id].response.status = 200
                     /\ route'[id].response.hasSources
                     /\ route'[id].response.sources = SortEvents(route[id].allEvents) ]_vars

\* a line that carries a window id and an event
WellFormed(line) ==
    /\ line.parses
    /\ line.isArray
    /\ Len(line.elems) = 2
    /\ line.elems[2].kind = "object"

\* a line that is not valid JSON or not an array of two elements
Malformed(line) == ~line.parses \/ ~line.isArray \/ Len(line.elems) # 2

\* the origins of the events of the well-formed lines of a text, in order
RECURSIVE WellFormedOrigins(_)
WellFormedOrigins(rawText) ==
    IF rawText = << >> THEN << >>
    ELSE (IF WellFormed(Head(rawText)) THEN << Head(rawText).elems[2].origin >>
          ELSE << >>) \o WellFormedOrigins(Tail(rawText))

Origins(events) == [ k \in DOMAIN events |-> events[k].origin ]

\* the origins of the events a malformed line of the text carries
MalformedOrigins(rawText) ==
    UNION { { rawText[k].elems[j].origin : j \in DOMAIN rawText[k].elems } :
            k \in { n \in DOMAIN rawText : Malformed(rawText[n]) } } \ {<< >>}

\* C18: of a batch answer, every well-formed line adds its event, in line
\* order, whatever malformed lines stand before or after it, and a line that
\* is not valid JSON or not an array of two elements adds nothing; the list
\* the route returns holds no event of a malformed line.
C18_MalformedLinesIsolated ==
    /\ [][ \A id \in RouteIds :
             ( /\ route[id].pc = "batch"
               /\ Len(route'[id].received) = Len(route[id].received) + 1
               /\ route'[id].received[Len(route'[id].received)].ok )
             => LET answer == route'[id].received[Len(route'[id].received)]
                    added == SubSeq(route'[id].allEvents, Len(route[id].allEvents) + 1,
                                    Len(route'[id].allEvents))
                IN /\ route'[id].allEvents = route[id].allEvents \o added
                   /\ Origins(added) = WellFormedOrigins(answer.rawText) ]_vars
    /\ [](\A id \in RouteIds : Answered(id) =>
            \A k \in DOMAIN Returned(id), a \in DOMAIN route[id].received :
                Returned(id)[k].origin \notin MalformedOrigins(route[id].received[a].rawText))

\* the route has returned the four events of a text whose second line is
\* not JSON and whose fifth line is an array of three
C18_Witness ==
    \E id \in RouteIds :
        /\ Answered(id)
        /\ Len(route[id].received) = 1
        /\ Len(route[id].received[1].rawText) >= 5
        /\ ~route[id].received[1].rawText[2].parses
        /\ Len(route[id].received[1].rawText[5].elems) = 3
        /\ { Returned(id)[k].origin : k \in DOMAIN Returned(id) }
             = { << 0, 1 >>, << 0, 3 >>, << 0, 6 >>, << 0, 7 >> }

\* the gzip magic bytes at the start of a string
StartsWithMagic(data) ==
    /\ data.type = "string"
    /\ Len(data.bytes) >= 2
    /\ SubSeq(data.bytes, 1, 2) = << 31, 139 >>

\* C19: no event the route returns has a data field that is a string
\* starting with the gzip magic bytes (an event whose compressed data cannot
\* be decompressed or parsed is dropped).
C19_NoCompressedDataReturned ==
    \A id \in RouteIds : Answered(id) =>
        \A k \in DOMAIN Returned(id) : ~StartsWithMagic(Returned(id)[k].data)

\* the data field the upstream line of a decoded event carried
SentData(id, event) ==
    route[id].received[event.origin[1] + 1].rawText[event.origin[2]].elems[2].data

\* C20: a decoded event whose data was sent as the compressed form of a JSON
\* text has the value of that text as data; a decoded event whose data was
\* sent without the magic bytes at its start (not a string, or a string that
\* starts otherwise) has its data as sent.
C20_DecompressionByMagicBytes ==
    \A id \in RouteIds :
        \A k \in DOMAIN route[id].allEvents :
            LET event == route[id].allEvents[k]
                sent == SentData(id, event)
            IN /\ ~StartsWithMagic(sent) => event.data = sent
               /\ sent = Str(Deflate(<< 123, 125 >>)) => event.data = Obj("{}")
               /\ sent = Str(Deflate(<< 91, 93 >>)) => event.data = Obj("[]")

\* the route has returned an event decompressed to {} next to events whose
\* data (a plain string, a string with the first magic byte only, an object,
\* an empty string, none) is as sent
C20_Witness ==
    \E id \in RouteIds :
        /\ Answered(id)
        /\ \E k \in DOMAIN Returned(id) :
              /\ StartsWithMagic(SentData(id, Returned(id)[k]))
              /\ Returned(id)[k].data = Obj("{}")
        /\ \A d \in { PlainString, HalfMagic, PlainObject, EmptyString, Undefined } :
              \E k \in DOMAIN Returned(id) :
                 /\ SentData(id, Returned(id)[k]) = d
                 /\ Returned(id)[k].data = d

\* the listing of an invocation has been received with a success status
Listed(id) ==
    /\ route[id].pc \in { "batch", "done" }
    /\ route[id].listing.ok
    /\ ~route[id].listing.threw

\* the positions of the listing entries that are blob_v2 and carry a key
KeyedEntries(sources) ==
    { k \in DOMAIN sources : sources[k].source = "blob_v2" /\ sources[k].blob_key.has }

\* C21: the keys used for batching are exactly the blob_key values of the
\* listing entries that are blob_v2 and have a key, in ascending order (each
\* value as often as it is listed, compared when the keys are resolved);
\* when the listing has no sources or no such entry, the route answers 200
\* with an empty event list and sends no batch request.
C21_BlobKeyResolution ==
    \A id \in RouteIds : Listed(id) =>
        LET sources == route[id].listing.sources
            keyed == IF route[id].listing.hasSources THEN KeyedEntries(sources) ELSE {}
            keys == route[id].blobKeys
        IN /\ Len(keys) = Cardinality(keyed)
           /\ \A k \in 1..(Len(keys) - 1) : keys[k] <= keys[k + 1]
           /\ { keys[k] : k \in DOMAIN keys } = { sources[k].blob_key.v : k \in keyed }
           /\ route[id].received = << >> =>
                 \A v \in { keys[k] : k \in DOMAIN keys } :
                    Cardinality({ k \in DOMAIN keys : keys[k] = v })
                       = Cardinality({ k \in keyed : sources[k].blob_key.v = v })
           /\ keyed = {} =>
                 /\ route[id].pc = "done"
                 /\ route[id].response.status = 200
                 /\ route[id].response.hasSources
                 /\ route[id].response.sources = << >>
                 /\ route[id].requests = << >>

\* one invocation has answered with an empty list for a listing whose two
\* entries resolve to no key, another has resolved three keys from a
\* listing of five entries given newest first
C21_Witness ==
    /\ \E id \in RouteIds :
          /\ Listed(id)
          /\ Len(route[id].listing.sources) = 2
          /\ route[id].blobKeys = << >>
          /\ Answered(id)
    /\ \E id \in RouteIds :
          /\ Listed(id)
          /\ Len(route[id].listing.sources) = 5
          /\ route[id].blobKeys = << 0, 2, 4 >>

LacksCredentials(credentials) ==
    /\ credentials.readable
    /\ \/ credentials.projectId \in { Absent, "" }
       \/ credentials.apiKey \in { Absent, "" }

\* C23: a request to the list route or to the snapshot route whose
\* projectId or apiKey is missing or empty is answered with status 400 and
\* an error body, and no upstream request is sent for it.
C23_CredentialValidation ==
    /\ (listRoute.pc # "idle" /\ LacksCredentials(listRoute.credentials))
          => /\ listRoute.pc = "done"
             /\ listRoute.response.status = 400
             /\ listRoute.response.error # ""
             /\ listRoute.upstreamCalls = 0
    /\ \A id \in RouteIds :
          (route[id].pc # "idle" /\ LacksCredentials(route[id].credentials))
          => /\ route[id].pc = "done"
             /\ route[id].response.status = 400
             /\ route[id].response.error # ""
             /\ route[id].listings = 0
             /\ route[id].requests = << >>

\* the list route has refused an empty project id, a snapshot route a
\* missing API key
C23_Witness ==
    /\ listRoute.pc = "done"
    /\ listRoute.credentials = Credentials(TRUE, "", "phx_key")
    /\ listRoute.response.status = 400
    /\ \E id \in RouteIds :
          /\ route[id].pc = "done"
          /\ route[id].credentials = Credentials(TRUE, "12345", Absent)
          /\ route[id].response.status = 400

\* the list route has answered with a list
ListAnswered == listRoute.pc = "done" /\ listRoute.response.status = 200

\* the quality criteria of a recording
PassesFilter(recording) ==
    /\ recording.recording_duration >= 30
    /\ recording.click_count + recording.keypress_count >= 1
    /\ recording.ongoing = "false"

\* C24: the returned list holds exactly the upstream recordings with a
\* duration of at least 30 seconds, at least one click or keypress and
\* ongoing false, unmodified and in their upstream order.
C24_RecordingListFilter ==
    ListAnswered =>
        LET upstream == listRoute.upstream.data.results
            returned == listRoute.response.data.results
        IN /\ returned = SelectSeq(upstream, PassesFilter)
           /\ \A k \in DOMAIN upstream :
                 PassesFilter(upstream[k])
                    <=> \E j \in DOMAIN returned : returned[j] = upstream[k]

\* of a 10-second recording, a 40-second recording without click or
\* keypress and a finished 40-second recording with one click, the third is
\* returned
C24_Witness ==
    /\ ListAnswered
    /\ listRoute.upstream.data.results =
          << Recording("short", 10, 1, 0, "false"),
             Recording("idle", 40, 0, 0, "false"),
             Recording("good", 40, 1, 0, "false") >>
    /\ listRoute.response.data.results = << Recording("good", 40, 1, 0, "false") >>

\* C25: the list response reports as count the number of recordings that
\* passed the filter and carries the upstream next and previous cursors.
C25_CountAndCursors ==
    ListAnswered =>
        /\ listRoute.response.data.count
              = Cardinality({ k \in DOMAIN listRoute.upstream.data.results :
                                PassesFilter(listRoute.upstream.data.results[k]) })
        /\ listRoute.response.data.count = Len(listRoute.response.data.results)
        /\ listRoute.response.data.next = listRoute.upstream.data.next
        /\ listRoute.response.data.previous = listRoute.upstream.data.previous

\* a page of three of which one passed, with cursors
C25_Witness ==
    /\ ListAnswered
    /\ Len(listRoute.upstream.data.results) = 3
    /\ listRoute.response.data.count = 1
    /\ listRoute.upstream.data.count # 1
    /\ listRoute.response.data.next = "https://us.posthog.com/next"
    /\ listRoute.response.data.previous = "https://us.posthog.com/previous"

\* ---- properties of the feed's list request and of sessions ----

\* C26: once the list request has failed, the error message stays set, the
\* loading flag is cleared, the list of recordings is empty, no snapshot
\* fetch has been or is started (cache, in-flight set and requests stay
\* empty), and every render shows the error page with its button to enter
\* other credentials.
C26_ListFetchFailure ==
    [][ /\ last'.op = "list_fail" => error' # Null
        /\ error' # Null =>
              /\ error' = "Failed to load recordings. Check your credentials."
              /\ ~isLoading'
              /\ recordings' = << >>
              /\ snapshots' = EmptyCache
              /\ fetchingIds' = {}
              /\ pipelines' = NoPipelines
              /\ snapshotError' = Null
              /\ last'.started = << >>
              /\ (view' = Live') => ErrorPageShown'
        /\ error # Null => error' = error ]_vars

\* the failure has been rendered
C26_Witness ==
    /\ error # Null
    /\ last.op = "render"
    /\ ErrorPageShown
    /\ view.recordings = << >>
\* C28: in whatever order the requests for distinct recordings return, a
\* successful one stores the stream of its own response under its own id
\* and leaves every other entry as it was, nothing else writes the cache,
\* and so the cache holds for every fetched id the stream of that id.
C28_CompletionOrderIndependence ==
    [][ /\ (last'.op = "complete" /\ last'.kind = "ok")
            => /\ DOMAIN snapshots' = DOMAIN snapshots \cup { last'.id }
               /\ snapshots'[last'.id] = StreamOf(last'.id)
               /\ \A id \in DOMAIN snapshots \ { last'.id } :
                     snapshots'[id] = snapshots[id]
        /\ ~(last'.op = "complete" /\ last'.kind = "ok")
            => snapshots' = snapshots
        /\ snapshots' = [ id \in DOMAIN snapshots' |-> StreamOf(id) ] ]_vars

\* the request of the first recording returns after those of the two
\* recordings started after it
C28_Witness ==
    /\ last.op = "complete" /\ last.kind = "ok"
    /\ last.id = RecordingId(0)
    /\ snapshots = [ id \in { RecordingId(0), RecordingId(1), RecordingId(2) }
                       |-> StreamOf(id) ]
\* ---- properties of the route's catch block ----

\* a step of the invocation has thrown: the request body could not be read,
\* or the listing call or a batch call threw
RouteThrew(id) ==
    /\ route[id].pc # "idle"
    /\ \/ ~route[id].credentials.readable
       \/ route[id].listing.threw
       \/ \E k \in DOMAIN route[id].received : route[id].received[k].threw

\* C30: when a step of the snapshot route throws, the route answers with
\* status 500 and an error message and without events, and the client takes
\* that answer as a failed fetch of the recording: it caches nothing and
\* reports "HTTP 500: Internal server error" for a primary fetch.
C30_UnexpectedFailureIs500 ==
    \A id \in RouteIds : RouteThrew(id) =>
        /\ route[id].pc = "done"
        /\ route[id].response.status = 500
        /\ route[id].response.error = "Internal server error"
        /\ ~route[id].response.hasSources
        /\ route[id].response.sources = << >>
        /\ LET out == FetchOutcome(ClientResponse(route[id].response))
           IN /\ out.tag = "err"
              /\ out.msg = "HTTP 500: Internal server error"
              /\ StoreSnapshots(EmptyCache, id, out) = EmptyCache
              /\ CatchError(Null, TRUE, out) = out.msg

\* one invocation could not read its request, another has decoded a batch
\* and then had the call of the next batch throw
C30_Witness ==
    /\ \E id \in RouteIds :
          /\ route[id].pc = "done"
          /\ ~route[id].credentials.readable
    /\ \E id \in RouteIds :
          /\ route[id].pc = "done"
          /\ route[id].allEvents # << >>
          /\ Len(route[id].received) = 2
          /\ route[id].received[2].threw
          /\ route[id].response.status = 500
\* ---- properties of shape detection ----

\* the shapes in the order the client tests them
Shapes == << "snapshot_data_by_window_id", "sources", "array", "snapshots" >>
PresentShapes(data) == { k \in DOMAIN Shapes : data[Shapes[k]] # Absent }
FirstShape(data) == CHOOSE k \in PresentShapes(data) : \A j \in PresentShapes(data) : k <= j

\* C29: the client takes the events of a response from the first shape
\* present among snapshot_data_by_window_id (its window arrays flattened),
\* sources, a bare array and snapshots, in this order, and caches them when
\* there are any; a response with none of the four shapes fails with
\* "Unknown snapshot data format" and nothing is cached.
C29_ShapePrecedence ==
    [][ (last'.op = "complete" /\ last'.kind = "shape") =>
          LET data == last'.data
              id == last'.id
          IN IF PresentShapes(data) = {}
             THEN /\ snapshots' = snapshots
                  /\ last'.primary => snapshotError' = "Unknown snapshot data format"
             ELSE LET value == data[Shapes[FirstShape(data)]]
                      events == IF FirstShape(data) = 1 THEN Flat(value) ELSE value
                  IN IF events = << >>
                     THEN /\ snapshots' = snapshots
                          /\ last'.primary =>
                                snapshotError' = "No snapshot data found in response"
                     ELSE /\ DOMAIN snapshots' = DOMAIN snapshots \cup { id }
                          /\ snapshots'[id] = events
                          /\ \A other \in DOMAIN snapshots \ { id } :
                                snapshots'[other] = snapshots[other]
                          /\ snapshotError' = snapshotError ]_vars

\* a response with windows, sources and snapshots has been cached as its
\* flattened windows, and one with sources and snapshots as its sources
C29_Witness ==
    /\ RecordingId(0) \in DOMAIN snapshots
    /\ snapshots[RecordingId(0)] = << Snapshot(RecordingId(0), 11), Snapshot(RecordingId(0), 12) >>
    /\ last.op = "complete" /\ last.kind = "shape"
    /\ last.id = RecordingId(1)
    /\ PresentShapes(last.data) = { 2, 4 }
    /\ RecordingId(1) \in DOMAIN snapshots
    /\ snapshots[RecordingId(1)] = << Snapshot(RecordingId(1), 21) >>
\* ---- properties of sessions ----

\* C27: a feed mounted for new credentials starts with an empty cache, an
\* empty in-flight set, no request of its own, no snapshot error and index
\* 0; the answer to a request of an earlier feed changes neither the cache
\* nor the in-flight set nor the error state of the feed on screen.
C27_SessionIsolation ==
    [][ /\ last'.op = "mount" =>
              /\ snapshots' = EmptyCache
              /\ fetchingIds' = {}
              /\ pipelines' = NoPipelines
              /\ snapshotError' = Null
              /\ error' = Null
              /\ currentIndex' = 0
              /\ recordings' = << >>
        /\ last'.op = "orphan" =>
              /\ snapshots' = snapshots
              /\ fetchingIds' = fetchingIds
              /\ snapshotError' = snapshotError
              /\ error' = error
              /\ pipelines' = pipelines ]_vars

\* in the second session, with the first recording on screen and its
\* request in flight, a request of the first session for that recording
\* has returned with events
C27_Witness ==
    /\ session.credentials = 2
    /\ last.op = "orphan" /\ last.kind = "ok"
    /\ recordings # << >>
    /\ last.id = At(recordings, currentIndex)
    /\ last.id \in fetchingIds
    /\ last.id \notin DOMAIN snapshots
\* ---- properties of navigation ----

NavigationOps == { "next", "previous", "finish", "scroll", "wheel_next", "wheel_previous" }
StartOps == { "list_ok", "effect", "retry" }

\* C31: next, previous, scroll, wheel and playback-finished steps change
\* only the current index and the snapshot error; the cache changes only in
\* the success path of a fetch, and the in-flight set only where a fetch
\* starts (by the ids started) and where it ends (by the id ended).
C31_ExclusiveOwnership ==
    [][ /\ last'.op \in NavigationOps =>
              UNCHANGED << recordings, snapshots, fetchingIds, pipelines,
                           isLoading, error >>
        /\ snapshots' # snapshots =>
              last'.op = "complete" /\ last'.kind = "ok"
        /\ fetchingIds' # fetchingIds =>
              \/ /\ last'.op = "complete"
                 /\ fetchingIds' = fetchingIds \ { last'.id }
              \/ /\ last'.op \in StartOps
                 /\ fetchingIds' = fetchingIds
                       \cup { last'.started[k][1] : k \in DOMAIN last'.started } ]_vars

\* a wheel event has moved the feed on while two requests were in flight
C31_Witness ==
    /\ last.op = "wheel_next"
    /\ currentIndex = 1
    /\ Cardinality(fetchingIds) = 2
    /\ snapshots # EmptyCache
\* the recording at index i is current and has no stream in the cache
WaitingAt(i) ==
    /\ i < Len(recordings)
    /\ currentIndex = i
    /\ At(recordings, i) \notin DOMAIN snapshots

\* C32: when every request returns, a feed whose current recording has no
\* cached stream eventually has that stream cached, or shows the snapshot
\* error with Retry for it, or has moved to another recording.
C32_ActiveRecordingNeverStuck ==
    \A i \in 0..(LiveRecs - 1) :
        WaitingAt(i) ~> \/ i < Len(recordings) /\ At(recordings, i) \in DOMAIN snapshots
                        \/ currentIndex = i /\ view.currentIndex = i /\ RetryShown
                        \/ currentIndex # i
\* C33: an entry of the cache is never removed and never replaced by
\* another stream.
C33_CacheMonotone ==
    [][ \A id \in DOMAIN snapshots :
           /\ id \in DOMAIN snapshots'
           /\ snapshots'[id] = snapshots[id] ]_vars
NextOps == { "next", "finish", "wheel_next" }
PreviousOps == { "previous", "wheel_previous" }

\* C34: with a non-empty list the current index is an index of the list;
\* a next is accepted only below the last index and a previous only above
\* index 0, each moving the index by exactly one.
C34_IndexInBounds ==
    /\ [](Len(recordings) > 0 => (currentIndex >= 0 /\ currentIndex < Len(recordings)))
    /\ [][ /\ last'.op \in NextOps =>
                 /\ currentIndex < Len(recordings) - 1
                 /\ currentIndex' = currentIndex + 1
           /\ last'.op \in PreviousOps =>
                 /\ currentIndex > 0
                 /\ currentIndex' = currentIndex - 1 ]_vars

\* C35: a step that changes the current index sets the snapshot error to
\* none, and the error is set again only where a primary fetch fails.
C35_NavigationClearsError ==
    [][ /\ currentIndex' # currentIndex => snapshotError' = Null
        /\ last'.op \in NavigationOps => snapshotError' = Null
        /\ (snapshotError' # Null /\ snapshotError' # snapshotError) =>
              /\ last'.op = "complete"
              /\ last'.primary
              /\ last'.kind # "ok" ]_vars

\* the feed has moved from a recording that showed an error to the next one
C35_Witness ==
    /\ last.op \in NavigationOps
    /\ currentIndex = 1
    /\ view.currentIndex = 0
    /\ view.snapshotError # Null
    /\ snapshotError = Null
\* ---- properties of merging, ranges and the number of calls ----

\* the origins of the events of the well-formed lines of the successful
\* answers, batch by batch
RECURSIVE AcceptedOrigins(_)
AcceptedOrigins(answers) ==
    IF answers = << >> THEN << >>
    ELSE (IF Head(answers).ok /\ ~Head(answers).threw
          THEN WellFormedOrigins(Head(answers).rawText) ELSE << >>)
         \o AcceptedOrigins(Tail(answers))

Occurrences(seq, x) == Cardinality({ k \in DOMAIN seq : seq[k] = x })
Range(seq) == { seq[k] : k \in DOMAIN seq }

\* C36: the list the route returns has one event for every well-formed line
\* of every successful batch answer and no other, each decoded event as
\* often as it was decoded.
C36_MergeIsPermutation ==
    \A id \in RouteIds : Answered(id) =>
        LET decoded == DecodedFrom(route[id].received)
            accepted == AcceptedOrigins(route[id].received)
            returned == Returned(id)
        IN /\ Len(returned) = Len(accepted)
           /\ Len(returned) = Len(decoded)
           /\ \A o \in Range(accepted) \cup Range(Origins(returned)) :
                 Occurrences(Origins(returned), o) = Occurrences(accepted, o)
           /\ \A e \in Range(decoded) \cup Range(returned) :
                 Occurrences(returned, e) = Occurrences(decoded, e)

\* the eight events of two batches, merged out of their order of decoding
C36_Witness ==
    \E id \in RouteIds :
        /\ Answered(id)
        /\ Len(route[id].received) = 2
        /\ \A k \in 1..2 : route[id].received[k].ok
        /\ Len(Returned(id)) = 8
        /\ Returned(id) # route[id].allEvents
\* C37: of the requests of one invocation, the end key of each is smaller
\* than the start key of the next, so no key lies in the range of two
\* requests.
C37_RangesDisjoint ==
    \A id \in RouteIds :
        \A k \in 1..(Len(route[id].requests) - 1) :
            route[id].requests[k].end_blob_key < route[id].requests[k + 1].start_blob_key
\* C38: an invocation sends at most one listing request and at most
\* ceil(N / 20) batch requests for its N resolved keys, and answers once;
\* when its listing was answered and no call failed to return, it has sent
\* exactly one listing request and exactly ceil(N / 20) batch requests when
\* it answers, whatever the status codes of the batch answers.
C38_BoundedUpstreamCalls ==
    /\ [](\A id \in RouteIds :
            LET r == route[id]
                expected == (Len(r.blobKeys) + BATCH_SIZE - 1) \div BATCH_SIZE
            IN /\ r.listings <= 1
               /\ Len(r.requests) <= expected
               /\ (r.pc = "done") <=> (r.response # NoResponse)
               /\ ( /\ Listed(id)
                    /\ r.pc = "done"
                    /\ \A k \in DOMAIN r.received : ~r.received[k].threw )
                  => /\ r.listings = 1
                     /\ Len(r.requests) = expected
                     /\ Len(r.received) = expected
                     /\ r.outstanding = 0
                     /\ r.response.status = 200)
    /\ [][ \A id \in RouteIds :
             route[id].pc = "done" => route'[id] = route[id] ]_vars

\* an invocation with 41 keys has answered after three batch requests, one
\* of them answered 503
C38_Witness ==
    \E id \in RouteIds :
        /\ route[id].pc = "done"
        /\ Len(route[id].blobKeys) = 41
        /\ Len(route[id].requests) = 3
        /\ \E k \in DOMAIN route[id].received : route[id].received[k].status = 503
        /\ \E k \in DOMAIN route[id].received : route[id].received[k].ok
        /\ route[id].response.status = 200

====
